---------------------------- MODULE Spec2Model ----------------------------
(***************************************************************************)
(* Model of evac/pipeline.py: the batched streaming bridge between an SRA  *)
(* read collection and an external aligner fed through two FIFOs.          *)
(*                                                                         *)
(* Three specifications share the module:                                  *)
(*   Spec      a BatchWriter wrapping a FifoWriter, driven by a client     *)
(*             through its public methods (__enter__, __call__, flush,    *)
(*             close, __exit__);                                           *)
(*   SpecRun   the pipelines (star, kallisto, salmon, hisat, mock) with    *)
(*             the sra_reader generator;                                   *)
(*   SpecPipe  FifoWriter writing two FIFOs that a child process reads.    *)
(*                                                                         *)
(* Python semantics are kept: a call whose arguments do not fit the        *)
(* function's parameters raises TypeError, an unbound global raises        *)
(* NameError, str.join over a list holding None raises TypeError, and an   *)
(* exception leaves every assignment made before it in place.              *)
(***************************************************************************)
EXTENDS Integers, Sequences, FiniteSets, TLC

VARIABLES
    \* ---- Spec: one BatchWriter over one FifoWriter
    bw,         \* the BatchWriter object: batch_size, index, read1_batch, read2_batch
    fw,         \* the FifoWriter object: fifo1, fifo2 (open text files on the FIFOs)
    env,        \* what the names used by __call__ resolve to (see Envs)
    pc,         \* the client: "new", "in" (inside the with block), "out"
    exc,        \* the exception the last call raised, "none" if it returned
    events,     \* history: every call, write and close, in program order
    nadded,     \* how many pairs the client handed to __call__
    nflush,     \* how many times the client called flush() itself
    nclose,     \* how many times the client called close()
    \* ---- SpecRun: one pipeline run
    run,        \* the orchestrator: pipeline, position, child process, outcome,
                \* and log, the calls it made on the child and the FIFOs, in order
    rd,         \* the sra_reader generator's frame
    requests,   \* history: the ranges asked of the archive, <<first_read, count>>
    delivered,  \* history: the records nextRead made current
    yielded,    \* history: the pairs the generator yielded to the loop body
    \* ---- SpecPipe: a FifoWriter and the child process on the two FIFOs
    prod,       \* the thread using the FifoWriter: position, units left to write
    fifo,       \* per side: the file's buffer, the pipe's content, the write end
    child       \* the child process: kind, its read ends, whose turn it is

batchVars == <<bw, fw, env, pc, exc, events, nadded, nflush, nclose>>
runVars == <<run, rd, requests, delivered, yielded>>
pipeVars == <<prod, fifo, child>>
vars == <<batchVars, runVars, pipeVars>>

---------------------------------------------------------------------------
\* Bounds of the model.
MaxBatch == 9        \* batch_size ranges over 1..MaxBatch
MaxPairs == 3        \* pairs a client adds
MaxFlushCalls == 2   \* direct flush() calls of a client
MaxCloseCalls == 2   \* close() calls of a client
MaxReads == 4        \* the archive's read count ranges over 0..MaxReads
MaxReadBatch == 3    \* sra_reader's batch_size ranges over 1..MaxReadBatch
MaxExitCode == 2     \* the child's exit code ranges over 0..MaxExitCode
BufCap == 1          \* units a file object buffers before it writes to its pipe
PipeCap == 1         \* units a pipe holds
MaxBlock == 4        \* units of one block handed to FifoWriter.__call__
MaxWrites == 2       \* calls of FifoWriter.__call__

---------------------------------------------------------------------------
\* Lines and text.  A line is <<kind, read name, side>>; a text (a str that
\* is written to a FIFO) is the sequence of its lines and line separators.

\* the placeholder of a slot no read was written to
None == <<"None", 0, 0>>

\* os.linesep, the default of BatchWriter.__init__'s linesep
linesep == <<"linesep", 0, 0>>

\* the constant third line of a FASTQ record
PlusLine == <<"+", 0, 0>>

\* '@' + name
HeaderLine(name) == <<"@", name, 0>>

\* the read tuple (name, sequence, qualities) of mate `side` of pair `id`
ReadTuple(id, side) == <<id, <<"seq", id, side>>, <<"qual", id, side>>>>

\* FastqWriter passes 4 as lines_per_row
lines_per_row == 4

Min(a, b) == IF a < b THEN a ELSE b

\* [x] * n
RECURSIVE Repeat(_, _)
Repeat(s, n) == IF n <= 0 THEN <<>> ELSE s \o Repeat(s, n - 1)

\* as create_batch_list, with '' instead of None as the placeholder
create_batch_list_str(batch_size) ==
    Repeat(<<<<"", 0, 0>>, <<"", 0, 0>>, PlusLine, <<"", 0, 0>>>>, batch_size)

\* FastqWriter._create_batch_list
create_batch_list(batch_size) == Repeat(<<None, None, PlusLine, None>>, batch_size)

\* list[0:n]
Slice(list, n) == SubSeq(list, 1, Min(n, Len(list)))

\* str.join raises TypeError when an item is not a str
JoinRaises(list) == \E i \in DOMAIN list : list[i] = None

\* linesep.join(list), for a list of str
RECURSIVE join(_)
join(list) ==
    IF Len(list) <= 1 THEN list
    ELSE <<Head(list), linesep>> \o join(Tail(list))

---------------------------------------------------------------------------
\* Exceptions are carried in the field exc of a machine state
\*   m = [bw, fw, events, exc];
\* a step applied to a state that already raised leaves it alone.

Ev(tag, n, payload) == <<tag, n, payload>>

Log(m, e) == [m EXCEPT !.events = Append(@, e)]

Raise(m, kind) == [m EXCEPT !.exc = kind]

\* file.write(text) of side `side`: ValueError on a closed file
file_write(m, side, text) ==
    IF m.exc # "none" THEN m
    ELSE IF m.fw[side].closed THEN Raise(m, "ValueError")
    ELSE Log(m, Ev("write", side, text))

\* as FifoWriter_call, with the two texts crossed
FifoWriter_call_crossed(m, read1_str, read2_str) ==
    file_write(file_write(m, 1, read2_str), 2, read1_str)

\* as FifoWriter_call, without the write to fifo2
FifoWriter_call_fifo1_only(m, read1_str, read2_str) ==
    file_write(m, 1, read1_str)

\* FifoWriter.__call__
FifoWriter_call(m, read1_str, read2_str) ==
    file_write(file_write(m, 1, read1_str), 2, read2_str)

\* file.flush(); file.close() of side `side`: flush raises ValueError on a
\* closed file, otherwise the file ends up closed
file_flush_close(m, side) ==
    IF m.exc # "none" THEN m
    ELSE IF m.fw[side].closed THEN Raise(m, "ValueError")
    ELSE Log([m EXCEPT !.fw[side].closed = TRUE], Ev("fclose", side, <<>>))

\* what os.remove is given: the open file object, not the FIFO's path
RemoveArgument == "file"

\* os.remove(arg): it takes a path; handed a file object it raises
\* TypeError (whatever exception the try block raised is replaced by it)
os_remove(m, side, arg) ==
    IF arg = "path"
    THEN Log([m EXCEPT !.fw[side].removed = TRUE], Ev("remove", side, <<>>))
    ELSE Raise(m, "TypeError")

\* the body of FifoWriter.close's loop for one fifo: try ... finally
fifo_close_one(m, side) ==
    IF m.exc # "none" THEN m
    ELSE LET t == file_flush_close(m, side)
             f == os_remove([t EXCEPT !.exc = "none"], side, RemoveArgument)
         IN  IF f.exc # "none" THEN f ELSE [f EXCEPT !.exc = t.exc]

\* FifoWriter.close
FifoWriter_close(m) == fifo_close_one(fifo_close_one(m, 1), 2)

\* as flush, with the separator written after the last flush too
flush_always_sep(m, last) ==
    IF m.exc # "none" THEN m
    ELSE
    LET m0 == Log(m, Ev("flush", IF last THEN 1 ELSE 0, <<>>))
        b  == m0.bw
        whole == ~(b.index < b.batch_size)
        l1 == IF whole THEN b.read1_batch ELSE Slice(b.read1_batch, b.index)
        l2 == IF whole THEN b.read2_batch ELSE Slice(b.read2_batch, b.index)
    IN  IF b.cleared \/ JoinRaises(l1) \/ JoinRaises(l2)
        THEN Raise(m0, "TypeError")
        ELSE
        LET m1 == FifoWriter_call(m0, join(l1), join(l2))
            m2 == FifoWriter_call(m1, <<linesep>>, <<linesep>>)
        IN  IF m2.exc # "none" THEN m2
            ELSE Log([m2 EXCEPT !.bw.index = 0],
                     Ev("flushed", IF last THEN 1 ELSE 0, <<>>))

\* BatchWriter.flush
flush(m, last) ==
    IF m.exc # "none" THEN m
    ELSE
    LET m0 == Log(m, Ev("flush", IF last THEN 1 ELSE 0, <<>>))
        b  == m0.bw
        whole == ~(b.index < b.batch_size)
        l1 == IF whole THEN b.read1_batch ELSE Slice(b.read1_batch, b.index)
        l2 == IF whole THEN b.read2_batch ELSE Slice(b.read2_batch, b.index)
    IN  IF b.cleared \/ JoinRaises(l1) \/ JoinRaises(l2)
        THEN Raise(m0, "TypeError")
        ELSE
        LET m1 == FifoWriter_call(m0, join(l1), join(l2))
            m2 == IF last THEN m1
                  ELSE FifoWriter_call(m1, <<linesep>>, <<linesep>>)
        IN  IF m2.exc # "none" THEN m2
            ELSE Log([m2 EXCEPT !.bw.index = 0],
                     Ev("flushed", IF last THEN 1 ELSE 0, <<>>))

\* as close, with a separator handed to the writer before it is closed
close_trailing_separator(m) ==
    IF m.exc # "none" THEN m
    ELSE FifoWriter_close(
            FifoWriter_call(
                Log([m EXCEPT !.bw.read1_batch = <<>>, !.bw.read2_batch = <<>>,
                              !.bw.cleared = TRUE],
                    Ev("close", 0, <<>>)),
                <<linesep>>, <<linesep>>))

\* BatchWriter.close
close(m) ==
    IF m.exc # "none" THEN m
    ELSE FifoWriter_close(
            Log([m EXCEPT !.bw.read1_batch = <<>>, !.bw.read2_batch = <<>>,
                          !.bw.cleared = TRUE],
                Ev("close", 0, <<>>)))

---------------------------------------------------------------------------
\* Call binding.

\* the parameters of FastqWriter.add_to_batch as defined: name, sequence,
\* qualities, batch, index
add_to_batch_params == 5

\* the arguments self.add_to_batch(*read, batch, index) passes through the
\* bound method: the instance, the three items of the read, batch, index
add_to_batch_args == 6

\* the parameters of BatchWriter.__exit__ as defined: exception_type,
\* exception_value, traceback
exit_params == 3

\* the arguments the with statement passes to __exit__: the instance and
\* the three exception items
exit_args == 4

\* whether __exit__ as defined has a name `self` to work on
exit_has_self == FALSE

\* How a client's class provides what __call__ needs.  add_to_batch is
\* either FastqWriter's function (which takes no self) or one a subclass
\* supplies that accepts the call; the global lines_per_row that __call__
\* reads is either unbound or bound (by the star import) to the row size.
Envs == [add_to_batch : {"FastqWriter", "subclass"}, lines_per_row : BOOLEAN]

\* whether self.add_to_batch(*read, batch, index) binds
add_to_batch_binds(e) ==
    e.add_to_batch = "subclass" \/ add_to_batch_params = add_to_batch_args

\* FastqWriter.add_to_batch: three item assignments, each raising
\* IndexError beyond the list's end, the earlier ones kept
add_to_batch(read, batch, index) ==
    LET put(r, off, line) ==
            IF r.exc # "none" THEN r
            ELSE IF index + off + 1 > Len(r.batch)
                 THEN [r EXCEPT !.exc = "IndexError"]
                 ELSE [r EXCEPT !.batch[index + off + 1] = line]
        r0 == [batch |-> batch, exc |-> "none"]
    IN  put(put(put(r0, 0, HeaderLine(read[1])), 1, read[2]), 3, read[3])

\* BatchWriter.__call__
call(m, e, id) ==
    LET m0 == Log(m, Ev("add", id, <<>>))
        b  == m0.bw
    IN  IF ~add_to_batch_binds(e) \/ b.cleared
        THEN Raise(m0, "TypeError")
        ELSE
        LET a1 == add_to_batch(ReadTuple(id, 1), b.read1_batch, b.index)
            m1 == [m0 EXCEPT !.bw.read1_batch = a1.batch]
        IN  IF a1.exc # "none" THEN Raise(m1, a1.exc)
            ELSE
            LET a2 == add_to_batch(ReadTuple(id, 2), b.read2_batch, b.index)
                m2 == [m1 EXCEPT !.bw.read2_batch = a2.batch]
            IN  IF a2.exc # "none" THEN Raise(m2, a2.exc)
                ELSE IF ~e.lines_per_row THEN Raise(m2, "NameError")
                ELSE
                LET m3 == [m2 EXCEPT !.bw.index = @ + lines_per_row]
                IN  IF m3.bw.index >= m3.bw.batch_size
                    THEN flush(m3, FALSE)
                    ELSE m3

\* BatchWriter.__exit__ as the with statement calls it
exit(m) ==
    LET m0 == Log(m, Ev("exit", 0, <<>>))
    IN  IF exit_params # exit_args THEN Raise(m0, "TypeError")
        ELSE IF ~exit_has_self THEN Raise(m0, "NameError")
        ELSE close(IF m0.bw.index > 0 THEN flush(m0, TRUE) ELSE m0)

---------------------------------------------------------------------------
\* The client of one BatchWriter.  It uses the writer the way the pipelines
\* do: inside a with block, with no handler around the calls, so a call
\* that raised is followed only by the exit from the block and by close.
\* Besides __call__ it may call the public flush and close itself.

Machine == [bw |-> bw, fw |-> fw, events |-> events, exc |-> "none"]

\* the call returns or raises to the client
Becomes(m) ==
    /\ bw' = m.bw
    /\ fw' = m.fw
    /\ events' = IF m.exc = "none" THEN m.events
                 ELSE Append(m.events, Ev("raise", 0, <<<<m.exc, 0, 0>>>>))
    /\ exc' = m.exc

\* no pipeline run
RunIdle ==
    /\ run = [pipeline |-> "none", pc |-> "done", child |-> "none",
              code |-> 0, returncode |-> -1, exc |-> "none",
              outcome |-> "none", log |-> <<>>]
    /\ rd = [pc |-> "idle", read_count |-> 0, batch_size |-> 1, arg |-> -1,
             max_reads |-> 0, first_read |-> 0, cur_batch_size |-> 0,
             read_idx |-> 0]
    /\ requests = <<>>
    /\ delivered = <<>>
    /\ yielded = <<>>

\* no FIFO in use
PipeIdle ==
    /\ prod = [pc |-> "done", side |-> 1, rem |-> 0, len |-> 0, ncalls |-> 0,
               exc |-> "none"]
    /\ fifo = [side \in {1, 2} |-> [buf |-> 0, pipe |-> 0, w |-> "closed"]]
    /\ child = [kind |-> "none", turn |-> 1,
                st |-> [side \in {1, 2} |-> "done"]]

\* BatchWriter.__init__ with FastqWriter's _create_batch_list, over a
\* FifoWriter whose two files are open
Init ==
    /\ \E n \in 1..MaxBatch :
           bw = [batch_size |-> n, index |-> 0, cleared |-> FALSE,
                 read1_batch |-> create_batch_list(n),
                 read2_batch |-> create_batch_list(n)]
    /\ fw = [side \in {1, 2} |-> [closed |-> FALSE, removed |-> FALSE]]
    /\ env \in Envs
    /\ pc = "new"
    /\ exc = "none"
    /\ events = <<>>
    /\ nadded = 0
    /\ nflush = 0
    /\ nclose = 0
    /\ RunIdle
    /\ PipeIdle

\* BatchWriter.__enter__
Enter ==
    /\ pc = "new"
    /\ pc' = "in"
    /\ UNCHANGED <<bw, fw, env, exc, events, nadded, nflush, nclose, runVars, pipeVars>>

\* writer(*read_pair) inside the with block
Call ==
    /\ pc = "in" /\ exc = "none" /\ nclose = 0
    /\ nadded < MaxPairs
    /\ nadded' = nadded + 1
    /\ Becomes(call(Machine, env, nadded + 1))
    /\ UNCHANGED <<env, pc, nflush, nclose, runVars, pipeVars>>

\* writer.flush(last) called by the client inside the with block
Flush ==
    /\ pc = "in" /\ exc = "none" /\ nclose = 0
    /\ nflush < MaxFlushCalls
    /\ nflush' = nflush + 1
    /\ \E last \in BOOLEAN : Becomes(flush(Machine, last))
    /\ UNCHANGED <<env, pc, nadded, nclose, runVars, pipeVars>>

\* the with block is left, normally or by the exception a call raised
Exit ==
    /\ pc = "in"
    /\ pc' = "out"
    /\ Becomes(exit(Machine))
    /\ UNCHANGED <<env, nadded, nflush, nclose, runVars, pipeVars>>

\* writer.close() called by the client
Close ==
    /\ pc \in {"in", "out"}
    /\ nclose < MaxCloseCalls
    /\ nclose' = nclose + 1
    /\ Becomes(close(Machine))
    /\ UNCHANGED <<env, pc, nadded, nflush, runVars, pipeVars>>

Next == Enter \/ Call \/ Flush \/ Exit \/ Close

Spec == Init /\ [][Next]_vars

---------------------------------------------------------------------------
\* Reading the history of a BatchWriter.

\* the four lines a FASTQ record of mate `side` of pair `id` consists of
Group(id, side) ==
    <<HeaderLine(id), <<"seq", id, side>>, PlusLine, <<"qual", id, side>>>>

\* the lines of the pairs first..last, in that order
RECURSIVE GroupsOf(_, _, _)
GroupsOf(first, last, side) ==
    IF first > last THEN <<>>
    ELSE Group(first, side) \o GroupsOf(first + 1, last, side)

\* the lines of a text
Lines(text) == SelectSeq(text, LAMBDA t : t # linesep)

IsTag(i, tag) == events[i][1] = tag

\* event i is the write of a data block to `side` (not of a separator)
IsData(i, side) ==
    IsTag(i, "write") /\ events[i][2] = side /\ events[i][3] # <<linesep>>

\* event i is the write of a separator to `side`
IsSep(i, side) ==
    IsTag(i, "write") /\ events[i][2] = side /\ events[i][3] = <<linesep>>

\* the lines of all data blocks written to `side` among the first n events
RECURSIVE DataLinesUpTo(_, _)
DataLinesUpTo(n, side) ==
    IF n = 0 THEN <<>>
    ELSE DataLinesUpTo(n - 1, side)
            \o (IF IsData(n, side) THEN Lines(events[n][3]) ELSE <<>>)

DataLines(side) == DataLinesUpTo(Len(events), side)

\* the last event before i that carries `tag`, 0 if there is none
RECURSIVE LastBefore(_, _)
LastBefore(i, tag) ==
    IF i <= 1 THEN 0
    ELSE IF IsTag(i - 1, tag) THEN i - 1 ELSE LastBefore(i - 1, tag)

\* the call whose events start at i raised: a "raise" comes before the next
\* call of the client (a "flush" may be the one an "add" triggers)
RECURSIVE RaisedAfter(_)
RaisedAfter(i) ==
    IF i >= Len(events) THEN FALSE
    ELSE IF IsTag(i + 1, "raise") THEN TRUE
    ELSE IF events[i + 1][1] \in {"add", "close", "exit"} THEN FALSE
    ELSE RaisedAfter(i + 1)

---------------------------------------------------------------------------
\* Claims about the BatchWriter (specification Spec).

\* C1 (Batch completeness), as claimed: once the scoped block has been left,
\* the lines of the data blocks handed to the underlying writer on each side
\* are exactly the line groups of the pairs added, each once.
C1_BatchCompleteness ==
    pc = "out" =>
        \A side \in {1, 2} :
            LET got == DataLines(side)
            IN  /\ Len(got) = lines_per_row * nadded
                /\ \A id \in 1..nadded :
                       Cardinality({k \in 1..nadded :
                           SubSeq(got, lines_per_row * (k - 1) + 1,
                                  lines_per_row * k) = Group(id, side)}) = 1

AddedSinceFlush(i) ==
    LET f == LastBefore(i, "flushed")
    IN  {events[k][2] : k \in {k \in (f + 1)..(i - 1) : IsTag(k, "add")}}

C7_IdempotentTeardown ==
    /\ \A i \in DOMAIN events :
           (/\ IsTag(i, "close")
            /\ \/ LastBefore(i, "close") > 0
               \/ LET f == LastBefore(i, "flush")
                  IN  f > 0 /\ RaisedAfter(f))
           => ~RaisedAfter(i)
    /\ \A side \in {1, 2} :
           /\ Cardinality({i \in DOMAIN events :
                  IsTag(i, "fclose") /\ events[i][2] = side}) <= 1
           /\ Cardinality({i \in DOMAIN events :
                  IsTag(i, "remove") /\ events[i][2] = side}) <= 1

\* C10 (Scoped teardown), as claimed: once the scoped block has been left,
\* the underlying writer's close has been executed by the exit, both
\* endpoints are closed, and if pairs were unflushed at the exit then one
\* last flush (last=True) came between the exit and the close.
C10_ScopedTeardown ==
    pc = "out" =>
        LET x == CHOOSE i \in DOMAIN events : IsTag(i, "exit")
            unflushed == AddedSinceFlush(x) # {}
        IN  \E c \in DOMAIN events :
                /\ c > x /\ IsTag(c, "close")
                /\ \A k \in (x + 1)..(c - 1) : events[k][1] \notin {"raise", "close"}
                /\ fw[1].closed /\ fw[2].closed
                /\ unflushed =>
                       /\ Cardinality({k \in (x + 1)..(c - 1) :
                              IsTag(k, "flush")}) = 1
                       /\ \E k \in (x + 1)..(c - 1) :
                              IsTag(k, "flushed") /\ events[k][2] = 1

\* the data blocks / the separators written to `side`, as event indices
DataBlocks(side) == {i \in DOMAIN events : IsData(i, side)}
Separators(side) == {i \in DOMAIN events : IsSep(i, side)}

\* the k-th line group written to `side`
GroupAt(k, side) ==
    SubSeq(DataLines(side), lines_per_row * (k - 1) + 1, lines_per_row * k)

C13_BestEffortClose ==
    \A i \in DOMAIN events :
        (/\ IsTag(i, "close")
         /\ RaisedAfter(i)
         /\ ~(fw[1].closed /\ fw[1].removed))
        => fw[2].closed /\ fw[2].removed

\* the kind of the exception event i reports
RaisedKind(i) == events[i][3][1][1]

\* C14 (Primary error preserved), as claimed: when a call made while
\* streaming (an add or a flush, before any close and before the exit from
\* the block) raised, the exception that leaves the with block is that
\* one, whatever the teardown did.
C14_PrimaryErrorPreserved ==
    pc = "out" =>
        LET R == {i \in DOMAIN events : IsTag(i, "raise")}
        IN  R # {} =>
                LET r == CHOOSE i \in R : \A j \in R : i <= j
                IN  (\A k \in 1..(r - 1) : events[k][1] \notin {"close", "exit"})
                    => exc = RaisedKind(r)

\* C16 (Flush trigger), as claimed: a step in which the client adds a pair
\* runs a flush exactly when that pair is the batch_size-th added since the
\* last completed flush, never more than batch_size pairs are pending, and
\* the fill count stays within the batch_size pairs of the lists.
C16_FlushTrigger ==
    [][nadded' = nadded + 1 =>
          LET pending == Cardinality(AddedSinceFlush(Len(events) + 1)) + 1
              flushes == {k \in (Len(events) + 1)..Len(events') :
                              events'[k][1] = "flush"}
          IN  /\ (flushes # {}) <=> (pending = bw.batch_size)
              /\ pending <= bw.batch_size
              /\ bw'.index <= lines_per_row * bw.batch_size]_vars

LastWrite(side) ==
    LET W == {i \in DOMAIN events : IsTag(i, "write") /\ events[i][2] = side}
    IN  IF W = {} THEN 0 ELSE CHOOSE i \in W : \A j \in W : j <= i

\* C19 (Empty buffer at exit), as claimed: when the with block has been
\* left with index = 0, the exit ran no flush and wrote nothing; if the
\* last pair added triggered a flush (the client calling no flush itself),
\* the last write on each side is a separator; if no pair was added, the
\* writer received no write and has been closed by the exit.
C19_EmptyBufferAtExit ==
    (pc = "out" /\ bw.index = 0) =>
        LET x == CHOOSE i \in DOMAIN events : IsTag(i, "exit")
            a == LastBefore(x, "add")
        IN  /\ \A k \in (x + 1)..Len(events) :
                   events[k][1] \notin {"flush", "flushed", "write"}
            /\ (/\ nflush = 0 /\ a > 0
                /\ \E k \in (a + 1)..(x - 1) : IsTag(k, "flushed"))
               => \A side \in {1, 2} :
                      LastWrite(side) > 0 /\ IsSep(LastWrite(side), side)
            /\ (nflush = 0 /\ nadded = 0) =>
                   /\ \A k \in DOMAIN events : ~IsTag(k, "write")
                   /\ \E k \in (x + 1)..Len(events) : IsTag(k, "close")
                   /\ fw[1].closed /\ fw[2].closed

---------------------------------------------------------------------------
\* The reader: sra_read_pair and the sra_reader generator.

\* What nextRead can make current as record `idx` of the archive: a name
\* (the record's index, or 0 for an empty name), a fragment count, and
\* what isPaired answers after the first and the second nextFragment.
Records(idx) ==
    [name : {idx, 0}, numFragments : 1..3, paired : BOOLEAN \X BOOLEAN,
     idx : {idx}]

\* as sra_read_pair, without the isPaired test of the second fragment
sra_read_pair_one_test(read_pair) ==
    LET read_name == read_pair.name
    IN  IF read_pair.numFragments # 2 THEN [exc |-> "Exception", pair |-> <<>>]
        ELSE IF ~read_pair.paired[1] THEN [exc |-> "Exception", pair |-> <<>>]
        ELSE [exc |-> "none",
              pair |-> << <<read_name, <<"seq", read_pair.idx, 1>>,
                                       <<"qual", read_pair.idx, 1>> >>,
                          <<read_name, <<"seq", read_pair.idx, 2>>,
                                       <<"qual", read_pair.idx, 2>> >> >>]

\* sra_read_pair: the pair of read tuples, or the exception raised
sra_read_pair(read_pair) ==
    LET read_name == read_pair.name
    IN  IF read_pair.numFragments # 2 THEN [exc |-> "Exception", pair |-> <<>>]
        ELSE IF ~read_pair.paired[1] THEN [exc |-> "Exception", pair |-> <<>>]
        ELSE IF ~read_pair.paired[2] THEN [exc |-> "Exception", pair |-> <<>>]
        ELSE [exc |-> "none",
              pair |-> << <<read_name, <<"seq", read_pair.idx, 1>>,
                                       <<"qual", read_pair.idx, 1>> >>,
                          <<read_name, <<"seq", read_pair.idx, 2>>,
                                       <<"qual", read_pair.idx, 2>> >> >>]

\* the max_reads sra_reader works with; the argument is -1 for None, and
\* `if max_reads:` takes None and 0 alike
effective_max_reads(read_count, arg) ==
    IF arg # -1 /\ arg # 0 THEN Min(read_count, arg) ELSE read_count

\* whether range(1, max_reads, batch_size) holds first_read
in_range(first_read, max_reads) == first_read < max_reads

\* the generator runs up to `with NGS.openReadCollection(accn) as run` and
\* the computation of max_reads
RdOpen ==
    /\ run.pc = "streaming"
    /\ rd.pc = "start"
    /\ rd' = [rd EXCEPT !.pc = "range",
                        !.max_reads = effective_max_reads(rd.read_count, rd.arg),
                        !.first_read = 1]
    /\ UNCHANGED <<run, requests, delivered, yielded, batchVars, pipeVars>>

\* the outer for: the next first_read of the range and its getReadRange,
\* or the end of the range, which ends the generator
RdRange ==
    /\ run.pc = "streaming"
    /\ rd.pc = "range"
    /\ IF in_range(rd.first_read, rd.max_reads)
       THEN LET cur_batch_size ==
                    Min(rd.batch_size, rd.max_reads - rd.first_read + 1)
            IN  /\ rd' = [rd EXCEPT !.pc = "read",
                                    !.cur_batch_size = cur_batch_size,
                                    !.read_idx = 0]
                /\ requests' = Append(requests, <<rd.first_read, cur_batch_size>>)
       ELSE /\ rd' = [rd EXCEPT !.pc = "done"]
            /\ UNCHANGED requests
    /\ UNCHANGED <<run, delivered, yielded, batchVars, pipeVars>>

\* the inner for: read.nextRead() and yield sra_read_pair(read); after the
\* last read of the range the outer for goes on
RdRead ==
    /\ run.pc = "streaming"
    /\ rd.pc = "read"
    /\ IF rd.read_idx < rd.cur_batch_size
       THEN \E rec \in Records(rd.first_read + rd.read_idx) :
                LET r == sra_read_pair(rec)
                IN  /\ delivered' = Append(delivered, rec)
                    /\ IF r.exc = "none"
                       THEN /\ yielded' = Append(yielded, r.pair)
                            /\ rd' = [rd EXCEPT !.read_idx = @ + 1]
                       ELSE /\ rd' = [rd EXCEPT !.pc = "failed"]
                            /\ UNCHANGED yielded
       ELSE /\ rd' = [rd EXCEPT !.pc = "range",
                                !.first_read = @ + rd.batch_size]
            /\ UNCHANGED <<delivered, yielded>>
    /\ UNCHANGED <<run, requests, batchVars, pipeVars>>

---------------------------------------------------------------------------
\* The pipelines.

Pipelines == {"star", "kallisto", "salmon", "hisat", "mock"}

\* the pipelines that feed the child through a FifoWriter
PipeFed == {"star", "kallisto", "salmon"}

\* the parameters of FastqWriter.__init__ as defined: self, batch_size
FastqWriter_init_params == 2

\* the arguments FastqWriter(FifoWriter(fifo1, fifo2), args.batch_size)
\* passes to __init__: the instance, the FifoWriter, the batch size
FastqWriter_init_args == 3

\* the arguments BatchWriter.__init__ cannot do without: self, writer,
\* batch_size, lines_per_row
BatchWriter_init_required == 4

\* the arguments super(FastqWriter, self).__init__(batch_size, 4) passes:
\* the instance, batch_size, 4
super_init_args == 3

\* FastqWriter(FifoWriter(fifo1, fifo2), args.batch_size): the exception
\* the construction raises, "none" if it returns a writer
FastqWriter_new ==
    IF FastqWriter_init_params # FastqWriter_init_args THEN "TypeError"
    ELSE IF super_init_args < BatchWriter_init_required THEN "TypeError"
    ELSE "none"

\* what the pipeline does with the child's exit code after waiting for it:
\* proc.wait()'s value is dropped and returncode is never read
after_wait(pending, returncode) == pending

\* no BatchWriter client
BatchIdle ==
    /\ bw = [batch_size |-> 1, index |-> 0, cleared |-> FALSE,
             read1_batch |-> <<>>, read2_batch |-> <<>>]
    /\ fw = [side \in {1, 2} |-> [closed |-> FALSE, removed |-> FALSE]]
    /\ env = [add_to_batch |-> "FastqWriter", lines_per_row |-> FALSE]
    /\ pc = "idle"
    /\ exc = "none"
    /\ events = <<>>
    /\ nadded = 0
    /\ nflush = 0
    /\ nclose = 0

\* run_pipeline(args) is called
InitRun ==
    /\ BatchIdle
    /\ PipeIdle
    /\ \E p \in Pipelines :
           run = [pipeline |-> p, pc |-> "start", child |-> "none",
                  code |-> 0, returncode |-> -1, exc |-> "none",
                  outcome |-> "none", log |-> <<>>]
    /\ \E c \in 0..MaxReads, b \in 1..MaxReadBatch, a \in -1..(MaxReads + 1) :
           rd = [pc |-> "start", read_count |-> c, batch_size |-> b, arg |-> a,
                 max_reads |-> 0, first_read |-> 0, cur_batch_size |-> 0,
                 read_idx |-> 0]
    /\ requests = <<>>
    /\ delivered = <<>>
    /\ yielded = <<>>

\* TempDir, mkfifos, open_ of the output, the command line; mock_pipeline
\* has none of it and goes straight to its loop
Configure ==
    /\ run.pc = "start"
    /\ run' = [run EXCEPT !.pc = IF run.pipeline = "mock" THEN "streaming"
                                 ELSE "launch"]
    /\ UNCHANGED <<rd, requests, delivered, yielded, batchVars, pipeVars>>

\* Popen(cmd, ...): the child runs, or the launch raises OSError
Launch ==
    /\ run.pc = "launch"
    /\ \/ run' = [run EXCEPT !.child = "running",
                             !.log = Append(@, "Popen"),
                             !.pc = IF run.pipeline = "hisat" THEN "wait"
                                    ELSE "open_fifos"]
       \/ run' = [run EXCEPT !.exc = "OSError", !.pc = "unwound"]
    /\ UNCHANGED <<rd, requests, delivered, yielded, batchVars, pipeVars>>

\* FifoWriter.__init__: both opens return once the child holds the read ends
OpenFifos ==
    /\ run.pc = "open_fifos"
    /\ run.child = "running"
    /\ run' = [run EXCEPT !.pc = "make_writer",
                          !.log = @ \o <<"open1", "open2">>]
    /\ UNCHANGED <<rd, requests, delivered, yielded, batchVars, pipeVars>>

\* FastqWriter(FifoWriter(fifo1, fifo2), args.batch_size)
MakeWriter ==
    /\ run.pc = "make_writer"
    /\ run' = [run EXCEPT !.exc = FastqWriter_new,
                          !.pc = IF FastqWriter_new = "none" THEN "streaming"
                                 ELSE "popen_exit"]
    /\ UNCHANGED <<rd, requests, delivered, yielded, batchVars, pipeVars>>

\* the for loop over sra_reader ends: the generator is exhausted or raised.
\* mock_pipeline returns or raises; a pipe-fed pipeline leaves the with
\* block of its writer, whose __exit__ raises
EndLoop ==
    /\ run.pc = "streaming"
    /\ rd.pc \in {"done", "failed"}
    /\ LET raised == IF rd.pc = "failed" THEN "Exception" ELSE "none"
       IN  IF run.pipeline = "mock"
           THEN run' = [run EXCEPT !.exc = raised, !.pc = "unwound"]
           ELSE run' = [run EXCEPT !.exc = "TypeError", !.pc = "popen_exit",
                                   !.log = Append(@, "__exit__")]
    /\ UNCHANGED <<rd, requests, delivered, yielded, batchVars, pipeVars>>

\* the child process ends with some exit code
ChildExit ==
    /\ run.child = "running"
    /\ \E c \in 0..MaxExitCode :
           run' = [run EXCEPT !.child = "exited", !.code = c]
    /\ UNCHANGED <<rd, requests, delivered, yielded, batchVars, pipeVars>>

\* proc.wait() of hisat_pipeline
Wait ==
    /\ run.pc = "wait"
    /\ run.child = "exited"
    /\ run' = [run EXCEPT !.returncode = run.code, !.pc = "popen_exit",
                          !.log = Append(@, "wait"),
                          !.exc = after_wait(run.exc, run.code)]
    /\ UNCHANGED <<rd, requests, delivered, yielded, batchVars, pipeVars>>

\* Popen.__exit__ waits for the child, then the exception, if any, goes on
PopenExit ==
    /\ run.pc = "popen_exit"
    /\ run.child = "exited"
    /\ run' = [run EXCEPT !.returncode = run.code, !.pc = "unwound",
                          !.log = Append(@, "wait"),
                          !.exc = after_wait(run.exc, run.code)]
    /\ UNCHANGED <<rd, requests, delivered, yielded, batchVars, pipeVars>>

\* the remaining with blocks (output file, TempDir) are left and
\* run_pipeline returns or raises to its caller
Return ==
    /\ run.pc = "unwound"
    /\ run' = [run EXCEPT !.pc = "done",
                          !.outcome = IF run.exc = "none" THEN "returned"
                                      ELSE run.exc]
    /\ UNCHANGED <<rd, requests, delivered, yielded, batchVars, pipeVars>>

NextRun ==
    \/ Configure \/ Launch \/ OpenFifos \/ MakeWriter
    \/ RdOpen \/ RdRange \/ RdRead \/ EndLoop
    \/ ChildExit \/ Wait \/ PopenExit \/ Return

SpecRun == InitRun /\ [][NextRun]_vars

---------------------------------------------------------------------------
\* FifoWriter and the child process on the two FIFOs.  Text is counted in
\* units.  A text file keeps what is written in its buffer and hands it to
\* the pipe only when the buffer is full (or on flush); writing to a full
\* pipe blocks until the reader takes something out.  Opening a FIFO blocks
\* until the other end is being opened or is open.

Other(side) == 3 - side

\* How the child reads its two inputs: "threads" drains each FIFO on its
\* own; "lockstep12" opens fifo1 then fifo2 and takes one unit from side 1,
\* one from side 2, and so on (the mates of one pair); "lockstep21" starts
\* with fifo2.
ChildKinds == {"threads", "lockstep12", "lockstep21"}

\* whether the child may act on `side` now
ChildTurn(side) == child.kind = "threads" \/ child.turn = side

\* the producer is inside open(fifo<side>, 'wt')
ProdOpening(side) == prod.pc = "open" /\ prod.side = side

\* the write end of `side` is being opened or is open
WriterThere(side) == ProdOpening(side) \/ fifo[side].w = "open"

\* the read end of `side` is being opened or is open
ReaderThere(side) == child.st[side] \in {"opening", "open"}

InitPipe ==
    /\ BatchIdle
    /\ RunIdle
    /\ prod = [pc |-> "open", side |-> 1, rem |-> 0, len |-> 0, ncalls |-> 0,
               exc |-> "none"]
    /\ fifo = [side \in {1, 2} |-> [buf |-> 0, pipe |-> 0, w |-> "closed"]]
    /\ \E k \in ChildKinds :
           child = [kind |-> k, turn |-> IF k = "lockstep21" THEN 2 ELSE 1,
                    st |-> [side \in {1, 2} |-> "closed"]]

\* FifoWriter.__init__: open(fifo1, 'wt') returns, then open(fifo2, 'wt')
ProdOpened ==
    /\ prod.pc = "open"
    /\ ReaderThere(prod.side)
    /\ fifo' = [fifo EXCEPT ![prod.side].w = "open"]
    /\ prod' = IF prod.side = 1 THEN [prod EXCEPT !.side = 2]
               ELSE [prod EXCEPT !.pc = "idle"]
    /\ UNCHANGED <<child, batchVars, runVars>>

\* FifoWriter.__call__(read1_str, read2_str) is entered with two texts of
\* n units: self.fifo1.write(read1_str) begins
ProdCall ==
    /\ prod.pc = "idle"
    /\ prod.ncalls < MaxWrites
    /\ \E n \in 1..MaxBlock :
           prod' = [prod EXCEPT !.pc = "write", !.side = 1, !.rem = n,
                                !.len = n, !.ncalls = @ + 1]
    /\ UNCHANGED <<fifo, child, batchVars, runVars>>

\* file.write goes on: a unit into the buffer, or, the buffer being full,
\* a unit of the buffer into the pipe
ProdWrite ==
    /\ prod.pc = "write"
    /\ prod.rem > 0
    /\ LET f == fifo[prod.side]
       IN  \/ /\ f.buf < BufCap
              /\ fifo' = [fifo EXCEPT ![prod.side].buf = @ + 1]
              /\ prod' = [prod EXCEPT !.rem = @ - 1]
           \/ /\ f.buf = BufCap
              /\ f.pipe < PipeCap
              /\ fifo' = [fifo EXCEPT ![prod.side].buf = @ - 1,
                                      ![prod.side].pipe = @ + 1]
              /\ UNCHANGED prod
    /\ UNCHANGED <<child, batchVars, runVars>>

\* file.write returns: after fifo1's comes self.fifo2.write(read2_str),
\* after fifo2's the call returns
ProdWritten ==
    /\ prod.pc = "write"
    /\ prod.rem = 0
    /\ prod' = IF prod.side = 1
               THEN [prod EXCEPT !.side = 2, !.rem = prod.len]
               ELSE [prod EXCEPT !.pc = "idle"]
    /\ UNCHANGED <<fifo, child, batchVars, runVars>>

\* FifoWriter.close is entered: fifo1.flush() begins
ProdClose ==
    /\ prod.pc = "idle"
    /\ prod' = [prod EXCEPT !.pc = "flush", !.side = 1]
    /\ UNCHANGED <<fifo, child, batchVars, runVars>>

\* file.flush goes on: a unit of the buffer into the pipe
ProdFlush ==
    /\ prod.pc = "flush"
    /\ fifo[prod.side].buf > 0
    /\ fifo[prod.side].pipe < PipeCap
    /\ fifo' = [fifo EXCEPT ![prod.side].buf = @ - 1,
                            ![prod.side].pipe = @ + 1]
    /\ UNCHANGED <<prod, child, batchVars, runVars>>

\* file.flush returns, file.close() closes the write end, and the finally
\* clause's os.remove raises or not; raising ends FifoWriter.close
ProdClosed ==
    /\ prod.pc = "flush"
    /\ fifo[prod.side].buf = 0
    /\ fifo' = [fifo EXCEPT ![prod.side].w = "eof"]
    /\ prod' = IF RemoveArgument # "path"
               THEN [prod EXCEPT !.pc = "done", !.exc = "TypeError"]
               ELSE IF prod.side = 1 THEN [prod EXCEPT !.side = 2]
               ELSE [prod EXCEPT !.pc = "done"]
    /\ UNCHANGED <<child, batchVars, runVars>>

\* the child enters open(fifo<side>) for reading; a lockstep child opens
\* its first FIFO, then the other
ChildOpen(side) ==
    /\ ChildTurn(side)
    /\ child.st[side] = "closed"
    /\ child' = [child EXCEPT !.st[side] = "opening"]
    /\ UNCHANGED <<prod, fifo, batchVars, runVars>>

\* the child's open returns
ChildOpened(side) ==
    /\ ChildTurn(side)
    /\ child.st[side] = "opening"
    /\ WriterThere(side)
    /\ child' = [child EXCEPT !.st[side] = "open", !.turn = Other(side)]
    /\ UNCHANGED <<prod, fifo, batchVars, runVars>>

\* the child reads a unit from `side`
ChildRead(side) ==
    /\ ChildTurn(side)
    /\ child.st[side] = "open"
    /\ fifo[side].pipe > 0
    /\ fifo' = [fifo EXCEPT ![side].pipe = @ - 1]
    /\ child' = [child EXCEPT !.turn = Other(side)]
    /\ UNCHANGED <<prod, batchVars, runVars>>

\* the child reads end-of-file from `side`: the pipe is empty and its
\* write end closed
ChildEof(side) ==
    /\ ChildTurn(side)
    /\ child.st[side] = "open"
    /\ fifo[side].pipe = 0
    /\ fifo[side].w = "eof"
    /\ child' = [child EXCEPT !.st[side] = "done", !.turn = Other(side)]
    /\ UNCHANGED <<prod, fifo, batchVars, runVars>>

ChildStep(side) ==
    ChildOpen(side) \/ ChildOpened(side) \/ ChildRead(side) \/ ChildEof(side)

NextPipe ==
    \/ ProdOpened \/ ProdCall \/ ProdWrite \/ ProdWritten
    \/ ProdClose \/ ProdFlush \/ ProdClosed
    \/ \E side \in {1, 2} : ChildStep(side)

SpecPipe == InitPipe /\ [][NextPipe]_vars

\* the producer is inside a call on `side` that cannot go on until the
\* child acts on that side
ProdBlockedOn(side) ==
    /\ prod.side = side
    /\ \/ prod.pc = "open" /\ ~ReaderThere(side)
       \/ /\ prod.pc = "write" /\ prod.rem > 0
          /\ fifo[side].buf = BufCap /\ fifo[side].pipe = PipeCap
       \/ /\ prod.pc = "flush" /\ fifo[side].buf > 0
          /\ fifo[side].pipe = PipeCap

\* the child is inside a call on `side` that cannot go on until the
\* producer acts on that side
ChildWaitsOn(side) ==
    /\ ChildTurn(side)
    /\ \/ child.st[side] = "opening" /\ ~WriterThere(side)
       \/ /\ child.st[side] = "open" /\ fifo[side].pipe = 0
          /\ fifo[side].w # "eof"

\* nothing the child could do is possible
ChildBlocked ==
    \A side \in {1, 2} : ChildTurn(side) => ChildWaitsOn(side)

---------------------------------------------------------------------------
\* Claims about the reader and the pipelines (specification SpecRun).

\* the archive index of the record the i-th yielded pair was made from
YieldedIdx(i) == yielded[i][1][2][2]

\* a record sra_read_pair must refuse
NotPaired(rec) ==
    rec.numFragments # 2 \/ ~rec.paired[1] \/ ~rec.paired[2]

\* C5 (Source bound), as claimed: when the generator signals end-of-data,
\* having been given max_reads None (-1) or at least 1, it has yielded the
\* records 1..min(read_count, max_reads) (1..read_count for None), each
\* once, in ascending order.
C5_SourceBound ==
    (rd.pc = "done" /\ (rd.arg = -1 \/ rd.arg >= 1)) =>
        LET bound == IF rd.arg = -1 THEN rd.read_count
                     ELSE Min(rd.read_count, rd.arg)
        IN  /\ Len(yielded) = bound
            /\ \A i \in DOMAIN yielded : YieldedIdx(i) = i

\* C9 (Pairing failure): a record that has not exactly two fragments, or a
\* fragment of which is reported unpaired, is the last the archive is
\* asked for: the generator has failed at it, it was delivered once, and
\* nothing of it was yielded; what was yielded are the records delivered
\* before it, in order, each as both of its mates.
C9_PairingFailure ==
    /\ \A i \in DOMAIN delivered :
           NotPaired(delivered[i]) =>
               /\ i = Len(delivered)
               /\ rd.pc = "failed"
               /\ \A k \in DOMAIN yielded : YieldedIdx(k) # delivered[i].idx
    /\ \A i, j \in DOMAIN delivered :
           i < j => delivered[i].idx < delivered[j].idx
    /\ Len(yielded) = Cardinality({i \in DOMAIN delivered :
                                       ~NotPaired(delivered[i])})
    /\ \A k \in DOMAIN yielded :
           /\ Len(yielded[k]) = 2
           /\ yielded[k][1][2] = <<"seq", delivered[k].idx, 1>>
           /\ yielded[k][2][2] = <<"seq", delivered[k].idx, 2>>
           /\ yielded[k][1][3] = <<"qual", delivered[k].idx, 1>>
           /\ yielded[k][2][3] = <<"qual", delivered[k].idx, 2>>

\* C9's case: after at least one pair was yielded the archive delivered a
\* record with two fragments whose second is unpaired, and the generator
\* failed
C9_Witness ==
    /\ rd.pc = "failed"
    /\ Len(yielded) >= 1
    /\ LET rec == delivered[Len(delivered)]
       IN  rec.numFragments = 2 /\ rec.paired = <<TRUE, FALSE>>

\* C8 (External tool failure), as claimed: a finished run of a pipe-fed
\* pipeline whose child exited with a non-zero code reports
\* ExternalToolFailure with that code, and a run returns normally only if
\* the child exited with code 0.
C8_ExternalToolFailure ==
    (run.pc = "done" /\ run.pipeline \in PipeFed /\ run.child = "exited") =>
        /\ run.code # 0 =>
               run.outcome = "ExternalToolFailure" /\ run.returncode = run.code
        /\ run.outcome = "returned" => run.code = 0

\* C15 (Pairing invariant), as claimed: the two mates of every yielded pair
\* carry the same name, and that name is not empty (0 stands for '').
C15_PairingInvariant ==
    \A k \in DOMAIN yielded :
        /\ yielded[k][1][1] = yielded[k][2][1]
        /\ yielded[k][1][1] # 0

\* C17 (Range requests stay in bounds), as claimed: every range asked of
\* the archive starts at 1 or later, has between 1 and batch_size records
\* and ends at or before min(read_count, max_reads) (read_count when
\* max_reads is None), and each range starts where the one before it ended.
C17_RangesInBounds ==
    LET bound == IF rd.arg = -1 THEN rd.read_count
                 ELSE Min(rd.read_count, rd.arg)
    IN  \A i \in DOMAIN requests :
            LET first_read == requests[i][1]
                cur_batch_size == requests[i][2]
            IN  /\ 1 <= first_read
                /\ 1 <= cur_batch_size /\ cur_batch_size <= rd.batch_size
                /\ first_read + cur_batch_size - 1 <= bound
                /\ i > 1 => first_read = requests[i - 1][1] + requests[i - 1][2]

\* C11 (Orchestrator ordering), as claimed: in a run of a pipe-fed pipeline
\* the child is started before a FIFO is opened for writing or written,
\* every write comes before the close of the writer, both FIFOs have been
\* closed when the orchestrator starts to wait for the child, and a run
\* whose child exited with code 0 ends Completed (it returns).
C11_OrchestratorOrdering ==
    run.pipeline \in PipeFed =>
        LET log == run.log
            Before(i, e) == \E j \in 1..(i - 1) : log[j] = e
        IN  /\ \A i \in DOMAIN log :
                   /\ log[i] \in {"open1", "open2", "write"} => Before(i, "Popen")
                   /\ log[i] = "write" =>
                          ~Before(i, "close1") /\ ~Before(i, "close2")
                   /\ log[i] = "wait" =>
                          Before(i, "close1") /\ Before(i, "close2")
            /\ (run.pc = "done" /\ run.child = "exited" /\ run.code = 0) =>
                   run.outcome = "returned"

---------------------------------------------------------------------------
\* Claims about the FifoWriter and the child (specification SpecPipe).

\* C6 (Pipe Sink side independence), as claimed: a paired write never
\* leaves the producer blocked in the write to one side while the child is
\* blocked waiting for data on the other side.
C6_SideIndependence ==
    \A side \in {1, 2} :
        ~(/\ prod.pc = "write"
          /\ ProdBlockedOn(side)
          /\ ChildBlocked
          /\ child.st[Other(side)] = "open"
          /\ ChildWaitsOn(Other(side)))

=============================================================================
